---- MODULE Spec2Model ----
(***************************************************************************)
(* Model of frescobaldi_app/vcs/gitjob.py: the Git job (one QProcess with  *)
(* captured output) and the GitJobQueue that runs Git jobs one at a time.  *)
(*                                                                         *)
(* Python methods are operators from a program state s (a record of the    *)
(* objects' fields) to the program state after the call; s.exc names the   *)
(* exception the call raised, if any.  An action of the model is one call  *)
(* from the application or one callback delivered by the Qt event loop.    *)
(***************************************************************************)
EXTENDS Integers, Sequences, FiniteSets, TLC

\* Number of Git objects the application creates.
NJobs == 3

Jobs == 1..NJobs

\* Python values.  None is a tuple of its own length, so that it compares
\* unequal to every captured payload, also to the empty ones.
None == <<"None">>
NoException == "no exception"

\* The argument lists the application uses.
StatusArgs == <<"list", <<"status">>>>

VARIABLES
    _queue,          \* GitJobQueue._queue: sequence of jobs, head first
    preset_args,     \* Git.preset_args, per job
    _process,        \* Git._process, per job: the QProcess state, its arguments, a kill sent
    _stdout,         \* Git._stdout, per job
    _stderr,         \* Git._stderr, per job
    _isbinary,       \* Git._isbinary, per job
    _version,        \* Git._version, per job
    finished,        \* per job: the arguments Git.finished has delivered to its slots
    executed,        \* per job: number of connections of Git.executed to _auto_run_next
    errorOccurred,   \* per job: number of slots connected to Git.errorOccurred
    life,            \* per job: "new", "alive", "deleteLater" (deletion posted), "deleted"
    phase,           \* history, per job: where its latest invocation stands
    launched,        \* history: the jobs whose process was started, in order
    killed,          \* history: the jobs killAll removed from the queue
    last             \* history: the call or callback that led to this state

vars == <<_queue, preset_args, _process, _stdout, _stderr, _isbinary, _version,
          finished, executed, errorOccurred, life, phase, launched, killed, last>>

\* The program state as one record, and the step that installs a new one.
Cur ==
    [_queue |-> _queue, preset_args |-> preset_args, _process |-> _process,
     _stdout |-> _stdout, _stderr |-> _stderr, _isbinary |-> _isbinary,
     _version |-> _version, finished |-> finished,
     executed |-> executed, errorOccurred |-> errorOccurred, life |-> life,
     phase |-> phase, launched |-> launched, killed |-> killed,
     exc |-> NoException, ret |-> None, env |-> None]

Becomes(s) ==
    /\ _queue' = s._queue
    /\ preset_args' = s.preset_args
    /\ _process' = s._process
    /\ _stdout' = s._stdout
    /\ _stderr' = s._stderr
    /\ _isbinary' = s._isbinary
    /\ _version' = s._version
    /\ finished' = s.finished
    /\ executed' = s.executed
    /\ errorOccurred' = s.errorOccurred
    /\ life' = s.life
    /\ phase' = s.phase
    /\ launched' = s.launched
    /\ killed' = s.killed

Raise(s, e) == [s EXCEPT !.exc = e]

Return(s, v) == [s EXCEPT !.ret = v]

\* What `last` records: the operation, the job it was called on (0: none), the
\* args and isbinary it was given, the exception it raised, the value it
\* returned, the queue it found and what the process did during the call
\* (env: how it ended, with its exit code and output).
Called(op, j, args, s) ==
    [op |-> op, job |-> j, args |-> args, isbinary |-> FALSE, exc |-> s.exc,
     ret |-> s.ret, was |-> _queue, env |-> s.env]

CalledWith(op, j, args, isbinary, s) ==
    [Called(op, j, args, s) EXCEPT !.isbinary = isbinary]

----------------------------------------------------------------------------
(* QProcess, as Git uses it *)

\* QProcess.start(): a process that is not running enters Starting at once;
\* start() on a running process only warns.
QProcess_start(s, j) ==
    IF s._process[j].state = "NotRunning"
    THEN [s EXCEPT !._process[j].state = "Starting",
                   !._process[j].killed = FALSE,
                   !.phase[j] = "started",
                   !.launched = Append(@, j)]
    ELSE s

\* QProcess.kill(): the kill is sent; the process state changes only when the
\* event loop sees the process die.
QProcess_kill(s, j) == [s EXCEPT !._process[j].killed = TRUE]

----------------------------------------------------------------------------
(* class Git *)

\* Mutant: the captured output is reset before the arguments are looked at.
_start_process_reset_first(s, j, args, isbinary) ==
    LET s1 == [s EXCEPT !._stderr[j] = None,
                        !._stdout[j] = None,
                        !._isbinary[j] = isbinary] IN
    IF args = None
    THEN Raise(s1, "Exception")
    ELSE QProcess_start([s1 EXCEPT !._process[j].arguments = args], j)

\* A variant that launches in the mode of the launch before (for C17).
_start_process_keeps_mode(s, j, args, isbinary) ==
    IF args = None THEN Raise(s, "Exception")
    ELSE QProcess_start([s EXCEPT !._stderr[j] = None, !._stdout[j] = None,
                                  !._process[j].arguments = args], j)

_start_process(s, j, args, isbinary) ==
    IF args = None
    THEN Raise(s, "Exception")
    ELSE QProcess_start(
            [s EXCEPT !._stderr[j] = None,
                      !._stdout[j] = None,
                      !._isbinary[j] = isbinary,
                      !._process[j].arguments = args], j)

\* Mutant: the preset arguments are not used.
run_ignores_preset(s, j, args, isbinary) ==
    _start_process(s, j, args, isbinary)

run(s, j, args, isbinary) ==
    _start_process(s, j, IF args = None THEN s.preset_args[j] ELSE args, isbinary)

isRunning(s, j) == ~(s._process[j].state = "NotRunning")

\* Mutant: the process is not killed.
kill_nothing(s, j) == s

\* A variant that sends the kill whatever the state of the process (for C16).
kill_always(s, j) == QProcess_kill(s, j)

kill(s, j) == IF isRunning(s, j) THEN QProcess_kill(s, j) ELSE s

\* str(bytes, 'utf-8'): the characters of a byte sequence; a byte that is no
\* UTF-8 makes the conversion fail.
Letters == <<"a", "b", "c", "d", "e", "f", "g", "h", "i", "j", "k", "l", "m",
             "n", "o", "p", "q", "r", "s", "t", "u", "v", "w", "x", "y", "z">>
Digits == <<"0", "1", "2", "3", "4", "5", "6", "7", "8", "9">>

Utf8Char(b) ==
    IF b = 10 THEN "\n"
    ELSE IF b = 32 THEN " "
    ELSE IF b = 46 THEN "."
    ELSE IF b \in 48..57 THEN Digits[b - 47]
    ELSE IF b \in 97..122 THEN Letters[b - 96]
    ELSE "?"

IsUtf8(bytes) == \A i \in 1..Len(bytes) : bytes[i] < 128

decode(bytes) == [i \in 1..Len(bytes) |-> Utf8Char(bytes[i])]

\* str.split('\n'): the pieces between the newlines, one more than there are
\* newlines (the empty string gives one empty piece).
RECURSIVE split(_)
split(text) ==
    IF text = <<>> THEN << <<>> >>
    ELSE LET rest == split(Tail(text)) IN
         IF Head(text) = "\n"
         THEN << <<>> >> \o rest
         ELSE << <<Head(text)>> \o rest[1] >> \o Tail(rest)

\* A variant that keeps the last element whatever it is (for C15).
pop_never(lines) == lines

\* list.pop() of the last element when it is empty.
pop_if_empty(lines) ==
    IF lines[Len(lines)] = <<>> THEN SubSeq(lines, 1, Len(lines) - 1) ELSE lines

QByteArray(bytes) == <<"QByteArray", bytes>>
list(lines) == <<"list", lines>>

\* out and err are what readAllStandardOutput() and readAllStandardError()
\* return when the process has ended.
_handle_results(s, j, out, err) ==
    IF s._isbinary[j]
    THEN [s EXCEPT !._stderr[j] = QByteArray(err),
                   !._stdout[j] = QByteArray(out)]
    ELSE IF ~IsUtf8(out) THEN Raise(s, "UnicodeDecodeError")
    ELSE LET s1 == [s EXCEPT !._stdout[j] = list(pop_if_empty(split(decode(out))))] IN
         IF ~IsUtf8(err) THEN Raise(s1, "UnicodeDecodeError")
         ELSE [s1 EXCEPT !._stderr[j] = list(pop_if_empty(split(decode(err))))]

\* Signal.emit(arg) of a signal declared pyqtSignal(QObject): an argument that
\* is no QObject is refused with a TypeError and no slot is called.
finished_emit(s, j, arg) ==
    IF arg[1] = "QObject"
    THEN [s EXCEPT !.finished[j] = Append(@, arg)]
    ELSE Raise(s, "TypeError")

\* phase: the completion handling has filled the result fields ("handled") or
\* has raised on the way ("failed").
_finished(s, j, exitcode, out, err) ==
    LET s1 == _handle_results(s, j, out, err) IN
    IF s1.exc # NoException THEN [s1 EXCEPT !.phase[j] = "failed"]
    ELSE finished_emit([s1 EXCEPT !.phase[j] = "handled"], j, <<"int", exitcode>>)

\* The names a function of the module can refer to without defining them:
\* the module's imports and classes, and the builtins the module uses.
GlobalNames == {"re", "time", "QObject", "QProcess", "pyqtSignal", "Git",
                "GitJobQueue", "None", "Exception", "str", "print", "tuple",
                "int", "len", "super", "AttributeError"}

stdout(s, j) ==
    IF s._stdout[j] # None THEN Return(s, s._stdout[j]) ELSE Return(s, None)

\* The comparison is written against the name `none`.
stderr(s, j) ==
    IF "none" \notin GlobalNames THEN Raise(s, "NameError")
    ELSE IF s._stderr[j] # None THEN Return(s, s._stderr[j]) ELSE Return(s, None)

\* QProcess.waitForFinished(): returns when the process has ended (its finished
\* signal, and with it Git._finished, is delivered before the return), when it
\* could not be started, or when the waiting time is over.  An exception raised
\* in the slot does not reach the caller of waitForFinished.
waitForFinished(s, j, wait) ==
    IF ~isRunning(s, j) THEN s
    ELSE IF wait[1] = "failed" /\ s._process[j].state = "Starting"
    THEN [s EXCEPT !._process[j].state = "NotRunning", !.env = wait]
    ELSE IF wait[1] = "exit"
    THEN LET s0 == [s EXCEPT !._process[j].state = "NotRunning", !.env = wait] IN
         IF s.life[j] = "deleted" THEN s0
         ELSE [_finished(s0, j, wait[2][1], wait[2][2], wait[2][3]) EXCEPT !.exc = NoException]
    ELSE [s EXCEPT !._process[j].state = "Running", !.env = <<"timeout">>]

run_blocking(s, j, args, isbinary, wait) ==
    LET s1 == _start_process(s, j, IF args = None THEN s.preset_args[j] ELSE args, isbinary) IN
    IF s1.exc # NoException THEN s1
    ELSE LET s2 == waitForFinished(s1, j, wait) IN
         Return(s2, <<s2._stdout[j], s2._stderr[j]>>)

\* re.match(r'git version (\d+)\.(\d+)\.(\d+)', string) for a str: the three
\* groups, or None.  \d+ takes the longest run of digits; what follows the
\* third group is not looked at.
VersionPrefix == <<"g", "i", "t", " ", "v", "e", "r", "s", "i", "o", "n", " ">>

IsDigit(c) == \E d \in 1..Len(Digits) : Digits[d] = c

DigitsFrom(text, i) ==
    CHOOSE n \in 0..(Len(text) + 1 - i) :
        /\ \A k \in i..(i + n - 1) : IsDigit(text[k])
        /\ (i + n > Len(text) \/ ~IsDigit(text[i + n]))

re_match(text) ==
    LET p  == Len(VersionPrefix)
        n1 == DigitsFrom(text, p + 1)
        d1 == p + 1 + n1
        n2 == DigitsFrom(text, d1 + 1)
        d2 == d1 + 1 + n2
        n3 == DigitsFrom(text, d2 + 1)
    IN IF /\ Len(text) > p /\ SubSeq(text, 1, p) = VersionPrefix
          /\ n1 > 0 /\ d1 < Len(text) /\ text[d1] = "."
          /\ n2 > 0 /\ d2 < Len(text) /\ text[d2] = "."
          /\ n3 > 0
       THEN <<"Match", << SubSeq(text, p + 1, d1 - 1),
                          SubSeq(text, d1 + 1, d2 - 1),
                          SubSeq(text, d2 + 1, d2 + n3) >> >>
       ELSE None

RECURSIVE int(_)
int(digits) ==
    IF digits = <<>> THEN 0
    ELSE 10 * int(SubSeq(digits, 1, Len(digits) - 1))
         + (CHOOSE d \in 1..Len(Digits) : Digits[d] = digits[Len(digits)]) - 1

tuple(groups) == <<"tuple", [g \in 1..Len(groups) |-> int(groups[g])]>>

VersionArgs == <<"list", <<"--version">>>>

\* run_blocking returns a pair, which is never falsy, so `or ''` keeps it;
\* output[0] is the pair's first element, self._stdout: a list or None.
\* re.match raises TypeError for a subject that is not a str.
version(s, j, wait) ==
    IF s._version[j] # None THEN Return(s, s._version[j])
    ELSE LET s1 == run_blocking(s, j, VersionArgs, FALSE, wait) IN
         IF s1.exc # NoException THEN s1
         ELSE LET output == s1.ret
                  s2 == Return(s1, None) IN
              IF output[1][1] # "str" THEN Raise(s2, "TypeError")
              ELSE LET match == re_match(output[1][2]) IN
                   IF match # None
                   THEN Return([s2 EXCEPT !._version[j] = tuple(match[2])],
                               tuple(match[2]))
                   ELSE s2

----------------------------------------------------------------------------
(* class GitJobQueue *)

\* QObject.deleteLater(): the deletion is posted to the event loop.
deleteLater(s, j) ==
    IF s.life[j] = "alive" THEN [s EXCEPT !.life[j] = "deleteLater"] ELSE s

\* errorOccurred.disconnect(): drops every slot connected to the signal, and
\* fails with a TypeError when none is connected.
errorOccurred_disconnect(s, j) ==
    IF s.errorOccurred[j] = 0 THEN Raise(s, "TypeError")
    ELSE [s EXCEPT !.errorOccurred[j] = 0]

\* Mutant: the new job is run whatever the queue holds.
enqueue_runs_always(s, gitjob) ==
    run([s EXCEPT !.executed[gitjob] = @ + 1,
                  !._queue = Append(@, gitjob)], gitjob, None, FALSE)

\* A variant that runs the head of the queue after every append (for C20).
enqueue_reruns_head(s, gitjob) ==
    LET s1 == [s EXCEPT !.executed[gitjob] = @ + 1, !._queue = Append(@, gitjob)] IN
    run(s1, s1._queue[1], None, FALSE)

enqueue(s, gitjob) ==
    LET s1 == [s EXCEPT !.executed[gitjob] = @ + 1,
                        !._queue = Append(@, gitjob)] IN
    IF Len(s1._queue) = 1
    THEN run(s1, s1._queue[1], None, FALSE)
    ELSE s1

_remove_current(s) ==
    IF s._queue # <<>>
    THEN LET head == s._queue[1]
             s1 == IF isRunning(s, head)
                   THEN LET d == errorOccurred_disconnect(s, head) IN
                        IF d.exc # NoException THEN d ELSE kill(d, head)
                   ELSE s
         IN IF s1.exc # NoException THEN s1
            ELSE [deleteLater(s1, head) EXCEPT !._queue = Tail(@)]
    ELSE s

RECURSIVE deleteAll(_, _)
deleteAll(s, jobs) ==
    IF jobs = <<>> THEN s ELSE deleteAll(deleteLater(s, Head(jobs)), Tail(jobs))

killAll(s) ==
    LET s1 == _remove_current(s) IN
    IF s1.exc # NoException THEN s1
    ELSE [deleteAll(s1, s1._queue) EXCEPT
             !._queue = <<>>,
             !.killed = @ \cup {s._queue[i] : i \in 1..Len(s._queue)}]

\* Mutant: the job enqueued last is run next.
_auto_run_next_runs_last(s, execute_status) ==
    LET s1 == _remove_current(s) IN
    IF s1.exc # NoException THEN s1
    ELSE IF s1._queue # <<>>
         THEN run(s1, s1._queue[Len(s1._queue)], None, FALSE)
         ELSE s1

_auto_run_next(s, execute_status) ==
    LET s1 == _remove_current(s) IN
    IF s1.exc # NoException THEN s1
    ELSE IF s1._queue # <<>>
         THEN run(s1, s1._queue[1], None, FALSE)
         ELSE s1

----------------------------------------------------------------------------
(* The application and the Qt event loop around one GitJobQueue *)

\* How a git process ends under the queue: exit code, bytes written to standard
\* output, bytes written to standard error.  The queue reads none of them.
QueueExits == { <<0, <<97, 10>>, <<>>>> }

Event == Called("event", 0, None, Cur)

InQueue(s, j) == \E i \in 1..Len(s._queue) : s._queue[i] = j

\* A job is handed to the queue once; the queue releases what it removes.
Handed(j) == InQueue(Cur, j) \/ life[j] # "alive"

\* The application sets the arguments of a new Git object in advance, or leaves
\* them unset, and enqueues it.
Enqueue(j, args) ==
    /\ ~Handed(j)
    /\ \A i \in Jobs : i < j => Handed(i)
    /\ LET s == enqueue([Cur EXCEPT !.preset_args[j] = args], j) IN
       /\ Becomes(s)
       /\ last' = Called("enqueue", j, None, s)

KillAll ==
    LET s == killAll(Cur) IN
    /\ Becomes(s)
    /\ last' = Called("killAll", 0, None, s)

\* The process reports that it runs (QProcess.started, stateChanged).
ProcessStarted(j) ==
    /\ _process[j].state = "Starting"
    /\ Becomes([Cur EXCEPT !._process[j].state = "Running"])
    /\ last' = Event

\* The process cannot be started: QProcess reports errorOccurred and is
\* NotRunning again; QProcess.finished is not emitted.
ProcessFailedToStart(j) ==
    /\ _process[j].state = "Starting"
    /\ Becomes([Cur EXCEPT !._process[j].state = "NotRunning"])
    /\ last' = Event

\* The process ends: QProcess is NotRunning and emits finished, which is
\* connected to Git._finished for as long as the Git object exists.
ProcessExit(j, exit) ==
    /\ _process[j].state = "Running"
    /\ LET s0 == [Cur EXCEPT !._process[j].state = "NotRunning",
                             !.env = <<"exit", exit>>]
           s == IF life[j] = "deleted" THEN s0
                ELSE _finished(s0, j, exit[1], exit[2], exit[3])
       IN /\ Becomes(s)
          /\ last' = IF life[j] = "deleted" THEN Event
                     ELSE Called("_finished", j, None, s)

\* The event loop carries out a posted deletion: the Git object is destroyed
\* and with it every connection from and to its signals and slots.
DeferredDelete(j) ==
    /\ life[j] = "deleteLater"
    /\ Becomes([Cur EXCEPT !.life[j] = "deleted",
                           !.executed[j] = 0,
                           !.errorOccurred[j] = 0])
    /\ last' = Event

\* Signal.emit(): every connected slot is called in turn.
RECURSIVE executed_slots(_, _, _)
executed_slots(s, n, status) ==
    IF n = 0 THEN s
    ELSE LET s1 == executed_slots(s, n - 1, status) IN
         _auto_run_next([s1 EXCEPT !.exc = NoException], status)

\* The job's "executed" notification, emitted once its completion handling is
\* done; the slots connected to it are called.
ExecutedEmit(j) ==
    /\ phase[j] = "handled"
    /\ life[j] # "deleted"
    /\ LET s == executed_slots([Cur EXCEPT !.phase[j] = "executed"], executed[j], 0) IN
       /\ Becomes(s)
       /\ last' = Called(IF executed[j] > 0 THEN "_auto_run_next" ELSE "executed", j, None, s)

NewProcess == [state |-> "NotRunning", arguments |-> None, killed |-> FALSE]

\* The state after Git.__init__ of every job and GitJobQueue.__init__.  The
\* application has connected its error handler to each job's errorOccurred:
\* _remove_current disconnects the signal "to prevent the git errorOccurred
\* signals being handled".
Init ==
    /\ _queue = <<>>
    /\ preset_args = [j \in Jobs |-> None]
    /\ _process = [j \in Jobs |-> NewProcess]
    /\ _stdout = [j \in Jobs |-> None]
    /\ _stderr = [j \in Jobs |-> None]
    /\ _isbinary = [j \in Jobs |-> FALSE]
    /\ _version = [j \in Jobs |-> None]
    /\ finished = [j \in Jobs |-> <<>>]
    /\ executed = [j \in Jobs |-> 0]
    /\ errorOccurred = [j \in Jobs |-> 1]
    /\ life = [j \in Jobs |-> "alive"]
    /\ phase = [j \in Jobs |-> "none"]
    /\ launched = <<>>
    /\ killed = {}
    /\ last = [op |-> "__init__", job |-> 0, args |-> None, isbinary |-> FALSE,
               exc |-> NoException, ret |-> None, was |-> <<>>, env |-> None]

Next ==
    \/ \E j \in Jobs, args \in {None, StatusArgs} : Enqueue(j, args)
    \/ KillAll
    \/ \E j \in Jobs : ProcessStarted(j)
    \/ \E j \in Jobs : ProcessFailedToStart(j)
    \/ \E j \in Jobs, exit \in QueueExits : ProcessExit(j, exit)
    \/ \E j \in Jobs : DeferredDelete(j)
    \/ \E j \in Jobs : ExecutedEmit(j)

Spec == Init /\ [][Next]_vars

----------------------------------------------------------------------------
(* The application using one Git object on its own, outside any queue *)

TheJob == 1

\* How a process ends: exit code, bytes written to standard output, bytes
\* written to standard error (10 is a newline, 97 the letter a, 255 a byte
\* that is no UTF-8).
\* b"git version 2.30.1\n"
GitVersionOutput ==
    <<103, 105, 116, 32, 118, 101, 114, 115, 105, 111, 110, 32, 50, 46, 51, 48, 46, 49, 10>>

Exits ==
    { <<0, <<>>, <<>>>>,
      <<0, GitVersionOutput, <<>>>>,
      <<0, <<97, 10>>, <<>>>>,
      <<0, <<97>>, <<>>>>,
      <<1, <<>>, <<97, 10>>>>,
      <<1, <<10, 97>>, <<97>>>>,
      <<0, <<255>>, <<>>>>,
      <<1, <<97>>, <<255>>>> }

Waits == { <<"exit", x>> : x \in Exits } \cup { <<"failed">>, <<"timeout">> }

ArgChoices == {None, StatusArgs}

\* Most times the application starts the job.
MaxRuns == 2

SetPresetArgs(args) ==
    /\ Becomes([Cur EXCEPT !.preset_args[TheJob] = args])
    /\ last' = Called("preset_args", TheJob, args, Cur)

Run(args, isbinary) ==
    LET s == run(Cur, TheJob, args, isbinary) IN
    /\ Len(launched) < MaxRuns
    /\ Becomes(s)
    /\ last' = CalledWith("run", TheJob, args, isbinary, s)

RunBlocking(args, isbinary, wait) ==
    LET s == run_blocking(Cur, TheJob, args, isbinary, wait) IN
    /\ Len(launched) < MaxRuns
    /\ Becomes(s)
    /\ last' = CalledWith("run_blocking", TheJob, args, isbinary, s)

Kill ==
    LET s == kill(Cur, TheJob) IN
    /\ Becomes(s)
    /\ last' = Called("kill", TheJob, None, s)

Stdout ==
    LET s == stdout(Cur, TheJob) IN
    /\ Becomes(s)
    /\ last' = Called("stdout", TheJob, None, s)

Stderr ==
    LET s == stderr(Cur, TheJob) IN
    /\ Becomes(s)
    /\ last' = Called("stderr", TheJob, None, s)

Version(wait) ==
    LET s == version(Cur, TheJob, wait) IN
    /\ _version[TheJob] = None => Len(launched) < MaxRuns
    /\ Becomes(s)
    /\ last' = Called("version", TheJob, None, s)

JobNext ==
    \/ \E args \in ArgChoices : SetPresetArgs(args)
    \/ \E args \in ArgChoices, isbinary \in BOOLEAN : Run(args, isbinary)
    \/ \E args \in ArgChoices, isbinary \in BOOLEAN, wait \in Waits :
          RunBlocking(args, isbinary, wait)
    \/ \E wait \in Waits : Version(wait)
    \/ Kill
    \/ Stdout
    \/ Stderr
    \/ ProcessStarted(TheJob)
    \/ ProcessFailedToStart(TheJob)
    \/ \E exit \in Exits : ProcessExit(TheJob, exit)

JobSpec == Init /\ [][JobNext]_vars

----------------------------------------------------------------------------
(* One job and what its process writes: job 1 is run with run_blocking and the
   process exits with every pair of payloads of up to MaxLen bytes in which
   one of the two is short.  Bytes: newline, "a", "b" and 255, which no UTF-8
   text contains.  A run can follow only a run that ended with PriorExit. *)

MaxLen == 4

Bytes == {10, 97, 98, 255}

Payloads == UNION { [1..n -> Bytes] : n \in 0..MaxLen }

ShortPayloads == { <<>>, <<97, 10>>, <<255>> }

CaptureExits ==
    { <<0, out, err>> : out \in Payloads, err \in ShortPayloads }
    \cup { <<0, out, err>> : out \in ShortPayloads, err \in Payloads }

PriorExit == <<0, <<97, 10>>, <<>>>>

Capture(isbinary, exit) == RunBlocking(StatusArgs, isbinary, <<"exit", exit>>)

CaptureNext ==
    /\ last.op = "__init__" \/ last.env = <<"exit", PriorExit>>
    /\ Len(launched) < MaxRuns
    /\ \E isbinary \in BOOLEAN, exit \in CaptureExits : Capture(isbinary, exit)

CaptureSpec == Init /\ [][CaptureNext]_vars

----------------------------------------------------------------------------
(* Properties of the queue, checked under Spec.  Jobs are numbered in the  *)
(* order in which they are enqueued.                                       *)

\* C1: as long as killAll has removed nothing, the jobs are launched in the
\* order they were enqueued, none skipped or repeated.  A job is launched as
\* the head of the queue, every job enqueued before it removed, and only by
\* its own enqueue into the empty queue or by the advance that the executed
\* notification of the job before it triggered; the job before it has had its
\* completion notification processed.
C1_LaunchedInEnqueueOrder ==
    [][(killed' = {} /\ launched' # launched) =>
          LET k == launched'[Len(launched')] IN
          /\ launched' = [i \in 1..k |-> i]
          /\ _queue' # <<>> /\ _queue'[1] = k
          /\ \/ last'.op = "enqueue" /\ last'.job = k /\ last'.was = <<>>
             \/ last'.op = "_auto_run_next" /\ last'.job = k - 1
          /\ k > 1 => phase'[k - 1] = "executed"]_vars

C1_Witness ==
    /\ killed = {}
    /\ launched = <<1, 2, 3>>
    /\ last.op = "_auto_run_next"

\* C2: no job behind the head of the queue is running, so at most one job of
\* the queue runs and it is the head.
C2_OnlyHeadRuns ==
    \A i \in 1..Len(_queue) : isRunning(Cur, _queue[i]) => i = 1

C2_Witness ==
    /\ Len(_queue) = 3
    /\ isRunning(Cur, _queue[1])

\* Nothing is in flight: no process is starting or running, no executed
\* notification is due and no deletion is posted.
Quiescent ==
    \A j \in Jobs :
        /\ _process[j].state = "NotRunning"
        /\ ~(phase[j] = "handled" /\ life[j] # "deleted")
        /\ life[j] # "deleteLater"

\* C3: without killAll, once every process has ended and every notification
\* has been delivered, every job that was enqueued has been launched and has
\* been removed from the queue.
C3_EveryJobLaunchedAndRemoved ==
    (killed = {} /\ Quiescent) =>
        \A j \in Jobs : Handed(j) =>
            /\ \E i \in 1..Len(launched) : launched[i] = j
            /\ ~InQueue(Cur, j)

\* C4: a job with preset arguments enqueued into an empty queue is the head of
\* the queue and running when enqueue returns.
C4_EnqueueOnEmptyRuns ==
    (last.op = "enqueue" /\ last.was = <<>> /\ preset_args[last.job] # None) =>
        /\ last.exc = NoException
        /\ _queue = <<last.job>>
        /\ isRunning(Cur, last.job)

C4_Witness ==
    /\ last.op = "enqueue"
    /\ last.was = <<>>
    /\ preset_args[last.job] # None
    /\ last.job > 1

\* C5: when killAll has returned the queue is empty, a job it removed is
\* running only if it was the head and has been sent the kill, and no job that
\* was behind the head was ever launched.
C5_KillAllEmptiesQueue ==
    (last.op = "killAll" /\ last.exc = NoException) =>
        /\ _queue = <<>>
        /\ \A i \in 1..Len(last.was) :
              LET j == last.was[i] IN
              /\ isRunning(Cur, j) => (i = 1 /\ _process[j].killed)
              /\ i > 1 => \A n \in 1..Len(launched) : launched[n] # j

C5_Witness ==
    /\ last.op = "killAll"
    /\ last.exc = NoException
    /\ Len(last.was) = 3
    /\ isRunning(Cur, last.was[1])

\* C6: the advance handler is never called on behalf of a job that killAll
\* removed from the queue.
C6_NoAdvanceForKilledJob ==
    last.op = "_auto_run_next" => last.job \notin killed

\* C7: the queue is empty exactly when none of its jobs is running or pending:
\* the head of a non-empty queue is running, and with an empty queue no job
\* that was handed to the queue is running.
C7_EmptyIffNothingRunning ==
    /\ _queue # <<>> => isRunning(Cur, _queue[1])
    /\ _queue = <<>> => \A j \in Jobs : Handed(j) => ~isRunning(Cur, j)

\* C8: enqueue, killAll and the advance handler never raise an exception.
C8_QueueOperationsNeverRaise ==
    last.op \in {"enqueue", "killAll", "_auto_run_next"} => last.exc = NoException

----------------------------------------------------------------------------
(* Properties of one job, checked under JobSpec *)

\* C9: run and run_blocking called without args on a job whose preset_args is
\* None raise at the call, start no process and leave the captured output, the
\* binary flag and the process as they were.
C9_NoArgsRaisesAtOnce ==
    [][(last'.op \in {"run", "run_blocking"} /\ last'.args = None
            /\ preset_args[last'.job] = None) =>
          /\ last'.exc = "Exception"
          /\ _stdout' = _stdout
          /\ _stderr' = _stderr
          /\ _isbinary' = _isbinary
          /\ _process' = _process
          /\ launched' = launched]_vars

C9_Witness ==
    /\ last.op \in {"run", "run_blocking"}
    /\ last.args = None
    /\ preset_args[last.job] = None
    /\ last.exc = "Exception"
    /\ _stdout[last.job] # None
    /\ _isbinary[last.job]

\* C10: for a job that has been invoked, stdout() and stderr() never fail, both
\* return None before the completion handling of the invocation and both
\* return the captured payload, which is not None, after it.
C10_OutputOnlyAfterCompletion ==
    \A j \in Jobs : phase[j] # "none" =>
        LET out == stdout(Cur, j)
            err == stderr(Cur, j)
        IN /\ out.exc = NoException
           /\ err.exc = NoException
           /\ phase[j] = "started" => (out.ret = None /\ err.ret = None)
           /\ phase[j] \in {"handled", "executed"} => (out.ret # None /\ err.ret # None)

\* ---------------------------------------------------------------------------
\* C11 (JobSpec).  Re-invoking a completed job via run moves the job back to
\* running and resets both captured outputs: right after the call both
\* accessors, stdout() and stderr(), return "not available" and not the output
\* of the previous invocation.
NotAvailable(s, j) ==
    /\ stdout(s, j).exc = NoException /\ stdout(s, j).ret = None
    /\ stderr(s, j).exc = NoException /\ stderr(s, j).ret = None

C11_RerunResetsOutputs ==
    [][(/\ last'.op = "run" /\ last'.exc = NoException
        /\ phase[TheJob] = "handled" /\ ~isRunning(Cur, TheJob))
       => /\ isRunning(Cur, TheJob)'
          /\ NotAvailable(Cur, TheJob)']_vars

\* ---------------------------------------------------------------------------
\* C12 (JobSpec).  Whenever run_blocking returns, the job is no longer running,
\* the completion handling has run, and the returned pair equals
\* (stdout(), stderr()) with neither element "not available" -- also when the
\* process is slow to exit or fails to start.
C12_RunBlockingWaitsForExit ==
    (last.op = "run_blocking" /\ last.exc = NoException)
    => /\ ~isRunning(Cur, TheJob)
       /\ phase[TheJob] = "handled"
       /\ last.ret[1] # None /\ last.ret[2] # None
       /\ stdout(Cur, TheJob).exc = NoException
       /\ stderr(Cur, TheJob).exc = NoException
       /\ last.ret = <<stdout(Cur, TheJob).ret, stderr(Cur, TheJob).ret>>

\* ---------------------------------------------------------------------------
\* C13 (JobSpec).  version() with an empty cache runs
\* run_blocking(['--version']) and, when the first stdout line reads
\* "git version X.Y.Z...", returns and caches the integer tuple (X, Y, Z):
\* "git version 2.30.1" gives (2, 30, 1).  Every later call returns the cached
\* tuple without launching the process again.
FirstLine(payload) == split(decode(payload))[1]

VersionOf(payload) == tuple(re_match(FirstLine(payload))[2])

C13_VersionParsedAndCached ==
    /\ [](/\ last.op = "version" /\ last.env[1] = "exit"
           /\ IsUtf8(last.env[2][2])
           /\ re_match(FirstLine(last.env[2][2])) # None
           => /\ last.exc = NoException
              /\ _process[TheJob].arguments = VersionArgs
              /\ last.ret = VersionOf(last.env[2][2])
              /\ _version[TheJob] = last.ret
              /\ last.env[2][2] = GitVersionOutput => last.ret = <<"tuple", <<2, 30, 1>>>>)
    /\ [][(last'.op = "version" /\ _version[TheJob] # None)
           => /\ last'.ret = _version[TheJob]
              /\ launched' = launched
              /\ _version' = _version]_vars

\* ---------------------------------------------------------------------------
\* C14 (JobSpec).  version() on output that does not match the pattern (another
\* first line, or no output at all) raises nothing, returns None and leaves
\* the cache unset, so that the next version() call launches the process
\* again.
C14_VersionNoMatchReturnsNone ==
    /\ [](/\ last.op = "version" /\ last.env[1] = "exit"
           /\ IsUtf8(last.env[2][2])
           /\ re_match(FirstLine(last.env[2][2])) = None
           => /\ last.exc = NoException
              /\ last.ret = None
              /\ _version[TheJob] = None)
    /\ [][(last'.op = "version" /\ _version[TheJob] = None /\ ~isRunning(Cur, TheJob))
           => launched' = Append(launched, TheJob)]_vars

\* ---------------------------------------------------------------------------
\* C15 (CaptureSpec).  Text-mode capture, for payloads that are UTF-8: the
\* captured value is the payload split into lines at the newlines, without the
\* final empty element when the payload ends in a newline and with nothing
\* dropped otherwise; interior empty lines are kept, and an empty payload gives
\* an empty sequence.  The same holds for stdout and for stderr.
\* b"a\nb\n" and b"a\nb" both give ["a", "b"].
RECURSIVE Join(_)
Join(lines) ==
    IF lines = <<>> THEN <<>>
    ELSE IF Len(lines) = 1 THEN lines[1]
    ELSE lines[1] \o <<"\n">> \o Join(Tail(lines))

EndsInNewline(text) == text # <<>> /\ text[Len(text)] = "\n"

Newlines(text) == Cardinality({ i \in 1..Len(text) : text[i] = "\n" })

\* lines are the lines of text: no line holds a newline, there is one line per
\* newline and one more for text after the last newline, and the lines joined
\* by newlines give the text back.
LinesOf(text, lines) ==
    /\ \A i \in 1..Len(lines) : \A k \in 1..Len(lines[i]) : lines[i][k] # "\n"
    /\ Len(lines) = Newlines(text) + (IF text = <<>> \/ EndsInNewline(text) THEN 0 ELSE 1)
    /\ text = Join(lines) \o (IF EndsInNewline(text) THEN <<"\n">> ELSE <<>>)

CapturedLines(payload, captured) ==
    /\ captured[1] = "list"
    /\ LinesOf(decode(payload), captured[2])
    /\ payload \in { <<97, 10, 98, 10>>, <<97, 10, 98>> } => captured[2] = << <<"a">>, <<"b">> >>
    /\ payload = <<>> => captured[2] = <<>>

TextExit == last.op = "run_blocking" /\ last.env[1] = "exit" /\ ~last.isbinary

C17_BinaryCaptureKeepsBytes ==
    (last.op = "run_blocking" /\ last.env[1] = "exit")
    => IF last.isbinary
       THEN /\ _stdout[TheJob] = QByteArray(last.env[2][2])
            /\ _stderr[TheJob] = QByteArray(last.env[2][3])
       ELSE /\ _stdout[TheJob][1] # "QByteArray"
            /\ _stderr[TheJob][1] # "QByteArray"

C17_Witness ==
    /\ last.op = "run_blocking" /\ last.isbinary /\ Len(launched) = 2
    /\ last.env[2][2] = <<255, 10, 97, 10>>
    /\ _stdout[TheJob] = QByteArray(<<255, 10, 97, 10>>)
    /\ _stderr[TheJob] = QByteArray(<<>>)

\* ---------------------------------------------------------------------------
\* C16 (JobSpec).  kill() never raises.  On a job that is not running (never
\* started, completed, failed to start, or killed before and exited) it
\* changes nothing of the job and delivers no notification, however often it is
\* called; on a running job it sends the kill to the process and changes
\* nothing else.
program == <<_queue, preset_args, _process, _stdout, _stderr, _isbinary, _version,
             finished, executed, errorOccurred, life, phase, launched, killed>>

C16_KillNotRunningIsNoOp ==
    [][last'.op = "kill"
       => /\ last'.exc = NoException
          /\ IF isRunning(Cur, TheJob)
             THEN /\ _process' = [_process EXCEPT ![TheJob].killed = TRUE]
                  /\ UNCHANGED <<_stdout, _stderr, _isbinary, _version, finished,
                                 phase, launched, preset_args>>
             ELSE UNCHANGED program]_vars

\* kill() was called on a job that had been killed before and has exited.
C16_Witness ==
    /\ last.op = "kill"
    /\ ~isRunning(Cur, TheJob)
    /\ _process[TheJob].killed
    /\ phase[TheJob] \in {"handled", "failed"}

\* ---------------------------------------------------------------------------
\* C18 (Spec).  In every reachable state no job outside the queue still has
\* _auto_run_next connected to its executed signal, and each job in the queue
\* has it connected exactly once: a job that leaves the queue (by the advance
\* or by killAll) has been disconnected by then.
C18_SubscribedIffQueued ==
    \A j \in Jobs : executed[j] = (IF InQueue(Cur, j) THEN 1 ELSE 0)

\* ---------------------------------------------------------------------------
\* C19 (JobSpec).  A running job that is killed goes through the same
\* completion path as a normal exit: once the killed process has ended the job
\* is not running, both captured outputs are set to the output there was (not
\* "not available"), and a "finished" notification carrying the exit code has
\* been delivered.
KilledExit == last.op = "_finished" /\ _process[TheJob].killed

C19_KilledJobCompletes ==
    KilledExit
    => /\ ~isRunning(Cur, TheJob)
       /\ _stdout[TheJob] # None /\ _stderr[TheJob] # None
       /\ finished[TheJob] # <<>>
       /\ finished[TheJob][Len(finished[TheJob])][2] = last.env[2][1]

\* ---------------------------------------------------------------------------
\* C20 (Spec).  enqueue on a non-empty queue only appends the job at the tail:
\* it launches no job (not the new one, not one in the queue), kills and
\* restarts none, raises nothing, and leaves the order of the jobs in the
\* queue and its head as they were.
C20_EnqueueOnNonEmptyAppends ==
    [][(last'.op = "enqueue" /\ _queue # <<>>)
       => /\ _queue' = Append(_queue, last'.job)
          /\ Head(_queue') = Head(_queue)
          /\ last'.exc = NoException
          /\ UNCHANGED <<_process, launched, killed, phase, life, _stdout, _stderr,
                         _isbinary, errorOccurred>>
          /\ \A j \in Jobs \ {last'.job} : executed'[j] = executed[j]]_vars

\* A job was appended behind a running head and a pending job.
C20_Witness ==
    /\ last.op = "enqueue" /\ Len(last.was) = 2
    /\ _queue = Append(last.was, last.job)
    /\ isRunning(Cur, _queue[1])
    /\ ~isRunning(Cur, last.job)

====
